---- MODULE Spec2Model ----
(***************************************************************************)
(* orc.rs: the OrcHeap arena and the Orc handle (weighted reference        *)
(* counting), src/src/lib.rs.                                              *)
(*                                                                         *)
(* The heap is a fixed vector of slots, each an atomic weight and an       *)
(* Option<T>.  An Orc is a slot address plus a private, non-atomic         *)
(* exponent (Cell<u8>).  Threads interleave at the granularity of the      *)
(* shared-memory accesses of the source: one compare_and_swap, one         *)
(* fetch_sub, one read or write of a Cell or of a slot's data.             *)
(* Orc is declared Sync, so a shared reference to one Orc may be cloned    *)
(* and dereferenced by several threads at once; drop needs the Orc itself. *)
(***************************************************************************)
EXTENDS Integers, FiniteSets, TLC

\* ---------------------------------------------------------------- bounds
\* Width of a pointer in bytes (lib.rs:29/31 has 4 or 8) and bits per byte
\* (8 in lib.rs:33), both scaled down.
PTR_SIZE == 3
BYTE_BITS == 1
\* capacity passed to OrcHeap::with_capacity
Capacity == 2
\* threads of the host
NumThreads == 2
\* Orc instances that exist at once
MaxHandles == 3
\* values of type T that exist at once
MaxValues == 3
\* size_of::<OrcInner<T>>(), in the unit of an address
SlotSize == 1

\* ------------------------------------------------------------- constants
PTR_BITS == PTR_SIZE * BYTE_BITS
USIZE_MOD == 2 ^ PTR_BITS
\* weight_exp is a u8
U8_MOD == 256

MAX_WEIGHT_EXP == PTR_BITS - 1
MAX_WEIGHT == 2 ^ MAX_WEIGHT_EXP

Slots == 0 .. (Capacity - 1)
Threads == 1 .. NumThreads
Handles == 1 .. MaxHandles
Values == 1 .. MaxValues

\* Option<T>::None
None == 0

\* 1usize << exp; a shift by the width or more is masked in a release build
two_two_the(exp) == 2 ^ (exp % PTR_BITS)

\* ------------------------------------------------------------- addresses
\* the values of [u8; PTR_SIZE - 1]
PTR_DATA_MOD == 2 ^ (PTR_BITS - BYTE_BITS)

\* transmute of a usize to ([u8; PTR_SIZE - 1], u8), little endian: the
\* array takes the low bytes, the u8 the most significant one
deconstruct_pointer(p) == <<p % PTR_DATA_MOD, p \div PTR_DATA_MOD>>

\* transmute of (pointer, weight) back to a usize
construct_pointer(pointer, w) == (pointer + w * PTR_DATA_MOD) % USIZE_MOD

\* where the allocator may put the buffer of the Vec: not at null, and all
\* of it inside the address space
Bases == {b \in 1 .. (USIZE_MOD - 1) : b + Capacity * SlotSize <= USIZE_MOD}

\* address of the slot at position s of a buffer at b
SlotAddr(b, s) == b + s * SlotSize

\* an assertion that looks at the first slot
CheckedSlotFirst(capacity) == capacity - capacity

\* heap.iter().nth(capacity - 1)
CheckedSlot(capacity) == capacity - 1

\* assert_eq!(weight, 0) on the slot with_capacity looks at
HeadroomOk(b) ==
    deconstruct_pointer(SlotAddr(b, CheckedSlot(Capacity)))[2] = 0

VARIABLES
    weight,   \* OrcInner.weight of every slot
    data,     \* OrcInner.data of every slot: None or the value stored
    orc,      \* the Orc instances: live, slot (pointer_data), exp (weight_exp)
    alive,    \* values of type T constructed and not yet torn down
    torn,     \* values whose teardown ran a second time
    pc,       \* position of every thread
    loc,      \* locals of the call a thread is in
    ret,      \* what the step just taken returned to the host, if it ended a call
    heap      \* the buffer of OrcHeap.heap: base address, and whether with_capacity has returned

vars == <<weight, data, orc, alive, torn, pc, loc, ret, heap>>

\* val: the value the slot was given by the alloc the Orc descends from
NoOrc == [live |-> FALSE, slot |-> 0, exp |-> 0, val |-> None]
NoLoc == [h |-> 0, pos |-> 0, tmp |-> 0, val |-> None]
\* op: the call and how it ended; a, b: what it saw.  A drop is recorded
\* when it brings the weight to zero, a deref when it does not find the value
\* of its Orc.
Ret(op, a, b) == [op |-> op, a |-> a, b |-> b]
NoRet == Ret("none", 0, 0)

\* "idle": between two calls.  A thread that panics unwinds and ends; the
\* host may start another in its place, so it is "idle" again.
ClonePcs == {"clone_get", "clone_set", "clone_new"}
\* calls in flight that end by creating an Orc
Creating == ClonePcs \cup {"alloc_cas", "alloc_write"}

Min(S) == CHOOSE x \in S : \A y \in S : x <= y

FreeHandles == {h \in Handles : ~orc[h].live}
Pending == {t \in Threads : pc[t] \in Creating}
\* room for one more Orc, counting those the calls in flight will create
Room == Cardinality(FreeHandles) > Cardinality(Pending)

\* value identities not in use: torn down, and named by no Orc or call
FreeValues ==
    {v \in Values : /\ ~alive[v]
                    /\ \A h \in Handles : orc[h].val # v
                    /\ \A t \in Threads : loc[t].val # v
                    /\ \A s \in Slots : data[s] # v}

\* T::drop of the value v (None has no teardown)
Teardown(al, v) == IF v = None THEN al ELSE [al EXCEPT ![v] = FALSE]
TornBy(v) == IF v # None /\ ~alive[v] THEN {v} ELSE {}

Init ==
    /\ weight = [s \in Slots |-> 0]
    /\ data = [s \in Slots |-> None]
    /\ orc = [h \in Handles |-> NoOrc]
    /\ alive = [v \in Values |-> FALSE]
    /\ torn = {}
    /\ pc = [t \in Threads |-> "idle"]
    /\ loc = [t \in Threads |-> NoLoc]
    /\ ret = NoRet
    /\ heap = [base |-> Min({b \in Bases : HeadroomOk(b)}), state |-> "built"]

\* the allocator has handed out the buffer and with_capacity has filled it:
\* the assertion is still to come
InitRaw ==
    /\ weight = [s \in Slots |-> 0]
    /\ data = [s \in Slots |-> None]
    /\ orc = [h \in Handles |-> NoOrc]
    /\ alive = [v \in Values |-> FALSE]
    /\ torn = {}
    /\ pc = [t \in Threads |-> "idle"]
    /\ loc = [t \in Threads |-> NoLoc]
    /\ ret = NoRet
    /\ heap \in [base : Bases, state : {"raw"}]

\* ----------------------------------------------------- OrcHeap::with_capacity
\* the assertion passes and the heap is returned, or it panics
WithCapacity ==
    /\ heap.state = "raw"
    /\ heap' = [heap EXCEPT !.state =
                    IF HeadroomOk(heap.base) THEN "built" ELSE "failed"]
    /\ UNCHANGED <<weight, data, orc, alive, torn, pc, loc, ret>>

\* ------------------------------------------------------------ OrcHeap::alloc
\* a scan that gives up one position early
ScanEndEarly(p) == p + 2 >= Capacity

\* position += 1; if position == self.heap.capacity() { break }
ScanEnd(p) == p + 1 = Capacity

\* an alloc that takes the slot at position p whatever its weight
AllocTryBlind(t, p, v) ==
    /\ weight' = [weight EXCEPT ![p] = MAX_WEIGHT]
    /\ pc' = [pc EXCEPT ![t] = "alloc_write"]
    /\ loc' = [loc EXCEPT ![t] = [NoLoc EXCEPT !.pos = p, !.val = v]]
    /\ ret' = NoRet
    /\ alive' = [alive EXCEPT ![v] = TRUE]
    /\ UNCHANGED torn

\* an alloc that starts the scan again when it has found no slot
AllocTryRetry(t, p, v) ==
    IF weight[p] = 0
    THEN /\ weight' = [weight EXCEPT ![p] = MAX_WEIGHT]
         /\ pc' = [pc EXCEPT ![t] = "alloc_write"]
         /\ loc' = [loc EXCEPT ![t] = [NoLoc EXCEPT !.pos = p, !.val = v]]
         /\ ret' = NoRet
         /\ alive' = [alive EXCEPT ![v] = TRUE]
         /\ UNCHANGED torn
    ELSE /\ pc' = [pc EXCEPT ![t] = "alloc_cas"]
         /\ loc' = [loc EXCEPT ![t] =
                     [NoLoc EXCEPT !.pos = IF ScanEnd(p) THEN 0 ELSE p + 1,
                                    !.val = v]]
         /\ ret' = NoRet
         /\ alive' = [alive EXCEPT ![v] = TRUE]
         /\ UNCHANGED <<weight, torn>>

\* an alloc that stores MAX_WEIGHT with a swap and compares afterwards
AllocTrySwap(t, p, v) ==
    /\ weight' = [weight EXCEPT ![p] = MAX_WEIGHT]
    /\ torn' = torn
    /\ IF weight[p] = 0
       THEN /\ pc' = [pc EXCEPT ![t] = "alloc_write"]
            /\ loc' = [loc EXCEPT ![t] = [NoLoc EXCEPT !.pos = p, !.val = v]]
            /\ ret' = NoRet
            /\ alive' = [alive EXCEPT ![v] = TRUE]
       ELSE IF ScanEnd(p)
       THEN /\ pc' = [pc EXCEPT ![t] = "idle"]
            /\ loc' = [loc EXCEPT ![t] = NoLoc]
            /\ ret' = Ret("alloc_err", t, 0)
            /\ alive' = [alive EXCEPT ![v] = FALSE]
       ELSE /\ pc' = [pc EXCEPT ![t] = "alloc_cas"]
            /\ loc' = [loc EXCEPT ![t] = [NoLoc EXCEPT !.pos = p + 1, !.val = v]]
            /\ ret' = NoRet
            /\ alive' = [alive EXCEPT ![v] = TRUE]

\* slot.weight.compare_and_swap(0, MAX_WEIGHT) at position p, by a call that
\* holds the value v
AllocTry(t, p, v) ==
    IF weight[p] = 0
    THEN /\ weight' = [weight EXCEPT ![p] = MAX_WEIGHT]
         /\ pc' = [pc EXCEPT ![t] = "alloc_write"]
         /\ loc' = [loc EXCEPT ![t] = [NoLoc EXCEPT !.pos = p, !.val = v]]
         /\ ret' = NoRet
         /\ alive' = [alive EXCEPT ![v] = TRUE]
         /\ UNCHANGED torn
    ELSE IF ScanEnd(p)
    THEN \* Err("Out of memory"): the value moved into alloc is dropped
         /\ pc' = [pc EXCEPT ![t] = "idle"]
         /\ loc' = [loc EXCEPT ![t] = NoLoc]
         /\ ret' = Ret("alloc_err", t, 0)
         /\ alive' = [alive EXCEPT ![v] = FALSE]
         /\ UNCHANGED <<weight, torn>>
    ELSE /\ pc' = [pc EXCEPT ![t] = "alloc_cas"]
         /\ loc' = [loc EXCEPT ![t] = [NoLoc EXCEPT !.pos = p + 1, !.val = v]]
         /\ ret' = NoRet
         /\ alive' = [alive EXCEPT ![v] = TRUE]
         /\ UNCHANGED <<weight, torn>>

\* the host builds a value and calls alloc: the scan starts at position 0
AllocBegin(t) ==
    /\ pc[t] = "idle"
    /\ Room
    /\ FreeValues # {}
    /\ AllocTry(t, 0, Min(FreeValues))
    /\ UNCHANGED <<data, orc>>
    /\ UNCHANGED heap

\* the scan at a later position
AllocCas(t) ==
    /\ pc[t] = "alloc_cas"
    /\ AllocTry(t, loc[t].pos, loc[t].val)
    /\ UNCHANGED <<data, orc>>
    /\ UNCHANGED heap

\* *mut_data = Some(value) drops what the slot held; the Orc is returned
AllocWrite(t) ==
    /\ pc[t] = "alloc_write"
    /\ LET p == loc[t].pos
           h == Min(FreeHandles)
       IN
        /\ torn' = torn \cup TornBy(data[p])
        /\ alive' = Teardown(alive, data[p])
        /\ data' = [data EXCEPT ![p] = loc[t].val]
        /\ orc' = [orc EXCEPT ![h] =
                    [live |-> TRUE, slot |-> p, exp |-> MAX_WEIGHT_EXP,
                     val |-> loc[t].val]]
        /\ ret' = Ret("alloc_ok", p, data[p])
    /\ loc' = [loc EXCEPT ![t] = NoLoc]
    /\ pc' = [pc EXCEPT ![t] = "idle"]
    /\ UNCHANGED weight
    /\ UNCHANGED heap

\* the same assignment when T::drop of the value the slot held panics: the
\* new value is stored on the way out, the call unwinds and returns no Orc
AllocWritePanic(t) ==
    /\ pc[t] = "alloc_write"
    /\ data[loc[t].pos] # None
    /\ LET p == loc[t].pos IN
        /\ torn' = torn \cup TornBy(data[p])
        /\ alive' = Teardown(alive, data[p])
        /\ data' = [data EXCEPT ![p] = loc[t].val]
        /\ ret' = Ret("alloc_panic", p, 0)
    /\ loc' = [loc EXCEPT ![t] = NoLoc]
    /\ pc' = [pc EXCEPT ![t] = "idle"]
    /\ UNCHANGED <<weight, orc>>
    /\ UNCHANGED heap

\* -------------------------------------------------------------- Orc::drop
\* an Orc that a clone in flight still borrows cannot be dropped
Borrowed(h) == \E u \in Threads : pc[u] \in ClonePcs /\ loc[u].h = h

\* a drop that gives back nothing
fetch_sub_lost(w, exp) == w

\* slot.weight.fetch_sub(two_two_the(weight_exp)): wrapping, atomic
fetch_sub(w, exp) == (w - two_two_the(exp)) % USIZE_MOD

Drop(t, h) ==
    /\ pc[t] = "idle"
    /\ orc[h].live
    /\ ~Borrowed(h)
    /\ LET s == orc[h].slot IN
        /\ weight' = [weight EXCEPT ![s] = fetch_sub(weight[s], orc[h].exp)]
        /\ ret' = IF weight'[s] = 0 THEN Ret("drop_zero", s, 0) ELSE NoRet
    /\ orc' = [orc EXCEPT ![h] = NoOrc]
    /\ UNCHANGED <<data, alive, torn, pc, loc>>
    /\ UNCHANGED heap

\* ------------------------------------------------------------- Orc::clone
\* if self.weight_exp.get() > 1 ... else panic!("not implemented yet")
CloneBegin(t, h) ==
    /\ pc[t] = "idle"
    /\ orc[h].live
    /\ Room
    /\ IF orc[h].exp > 1
       THEN /\ pc' = [pc EXCEPT ![t] = "clone_get"]
            /\ loc' = [loc EXCEPT ![t] = [NoLoc EXCEPT !.h = h]]
            /\ ret' = NoRet
       ELSE /\ ret' = Ret("clone_panic", orc[h].exp, 0)
            /\ UNCHANGED <<pc, loc>>
    /\ UNCHANGED <<weight, data, orc, alive, torn>>
    /\ UNCHANGED heap

\* self.weight_exp.get() of the decrement
CloneGet(t) ==
    /\ pc[t] = "clone_get"
    /\ pc' = [pc EXCEPT ![t] = "clone_set"]
    /\ loc' = [loc EXCEPT ![t].tmp = orc[loc[t].h].exp]
    /\ ret' = NoRet
    /\ UNCHANGED <<weight, data, orc, alive, torn>>
    /\ UNCHANGED heap

\* self.weight_exp.set(.. - 1); u8 underflow panics (debug) or wraps (release)
CloneSet(t) ==
    /\ pc[t] = "clone_set"
    /\ \E checked \in IF loc[t].tmp = 0 THEN BOOLEAN ELSE {FALSE} :
        IF checked
        THEN /\ pc' = [pc EXCEPT ![t] = "idle"]
             /\ loc' = [loc EXCEPT ![t] = NoLoc]
             /\ ret' = Ret("clone_overflow", 0, 0)
             /\ UNCHANGED orc
        ELSE /\ orc' = [orc EXCEPT ![loc[t].h].exp = (loc[t].tmp - 1) % U8_MOD]
             /\ pc' = [pc EXCEPT ![t] = "clone_new"]
             /\ ret' = NoRet
             /\ UNCHANGED loc
    /\ UNCHANGED <<weight, data, alive, torn>>
    /\ UNCHANGED heap

\* a clone that hands its Orc over instead of copying it
CloneCopyMoved(o, h, n) == [o EXCEPT ![n] = o[h], ![h] = NoOrc]

\* Orc { weight_exp: Cell::new(self.weight_exp.get()), pointer_data, .. }
CloneCopy(o, h, n) == [o EXCEPT ![n] = o[h]]

\* return of the new Orc
CloneNew(t) ==
    /\ pc[t] = "clone_new"
    /\ LET h == loc[t].h
           n == Min(FreeHandles)
       IN
        /\ orc' = CloneCopy(orc, h, n)
        /\ ret' = Ret("clone_ok", orc[h].exp, 0)
    /\ loc' = [loc EXCEPT ![t] = NoLoc]
    /\ pc' = [pc EXCEPT ![t] = "idle"]
    /\ UNCHANGED <<weight, data, alive, torn>>
    /\ UNCHANGED heap

\* ------------------------------------------------------------- Orc::deref
\* match slot.data { Some(ref d) => d, None => unreachable!() }
Deref(t, h) ==
    /\ pc[t] = "idle"
    /\ orc[h].live
    /\ LET d == data[orc[h].slot] IN
        ret' = IF d = None THEN Ret("deref_panic", 0, 0)
               ELSE IF d # orc[h].val THEN Ret("deref_other", 0, 0)
               ELSE NoRet
    /\ UNCHANGED <<weight, data, orc, alive, torn, pc, loc>>
    /\ UNCHANGED heap

\* ---------------------------------------------------------- OrcHeap::collect
\* the loop of collect moves on from position p; n: 1 when this sweep has
\* torn down a value, else 0
CollectStep(t, p, n) ==
    IF ScanEnd(p)
    THEN /\ pc' = [pc EXCEPT ![t] = "idle"]
         /\ loc' = [loc EXCEPT ![t] = NoLoc]
         /\ ret' = Ret("collect", n, 0)
    ELSE /\ pc' = [pc EXCEPT ![t] = "collect_cas"]
         /\ loc' = [loc EXCEPT ![t] = [NoLoc EXCEPT !.pos = p + 1, !.tmp = n]]
         /\ ret' = NoRet

\* slot.weight.compare_and_swap(0, MAX_WEIGHT) at position p of
\* for position in 0..self.heap.capacity()
CollectTry(t, p, n) ==
    IF weight[p] = 0
    THEN /\ weight' = [weight EXCEPT ![p] = MAX_WEIGHT]
         /\ pc' = [pc EXCEPT ![t] = "collect_write"]
         /\ loc' = [loc EXCEPT ![t] = [NoLoc EXCEPT !.pos = p, !.tmp = n]]
         /\ ret' = NoRet
    ELSE /\ CollectStep(t, p, n)
         /\ UNCHANGED weight

\* the host calls collect: the loop starts at position 0
CollectBegin(t) ==
    /\ pc[t] = "idle"
    /\ CollectTry(t, 0, 0)
    /\ UNCHANGED <<data, orc, alive, torn>>
    /\ UNCHANGED heap

\* the loop at a later position
CollectCas(t) ==
    /\ pc[t] = "collect_cas"
    /\ CollectTry(t, loc[t].pos, loc[t].tmp)
    /\ UNCHANGED <<data, orc, alive, torn>>
    /\ UNCHANGED heap

\* a sweep that leaves the value where it is
CollectClearKeep(d, p) == d

\* *mut_data = None
CollectClear(d, p) == [d EXCEPT ![p] = None]

\* *mut_data = None drops what the slot held; the weight is left as set
CollectWrite(t) ==
    /\ pc[t] = "collect_write"
    /\ LET p == loc[t].pos IN
        /\ data' = CollectClear(data, p)
        /\ torn' = torn \cup (IF data'[p] = None THEN TornBy(data[p]) ELSE {})
        /\ alive' = IF data'[p] = None THEN Teardown(alive, data[p]) ELSE alive
        /\ CollectStep(t, p, IF data[p] = None THEN loc[t].tmp ELSE 1)
    /\ UNCHANGED <<weight, orc>>
    /\ UNCHANGED heap

\* the same assignment when T::drop of the value the slot held panics: the
\* slot is cleared on the way out and the unwinding ends the sweep
CollectWritePanic(t) ==
    /\ pc[t] = "collect_write"
    /\ data[loc[t].pos] # None
    /\ LET p == loc[t].pos IN
        /\ torn' = torn \cup TornBy(data[p])
        /\ alive' = Teardown(alive, data[p])
        /\ data' = [data EXCEPT ![p] = None]
        /\ ret' = Ret("collect_panic", p, 0)
    /\ loc' = [loc EXCEPT ![t] = NoLoc]
    /\ pc' = [pc EXCEPT ![t] = "idle"]
    /\ UNCHANGED <<weight, orc>>
    /\ UNCHANGED heap

\* ------------------------------------------------------------ the program
\* threads call alloc, clone, deref, drop and collect as they please
Next ==
    \/ \E t \in Threads : AllocBegin(t)
    \/ \E t \in Threads : AllocCas(t)
    \/ \E t \in Threads : AllocWrite(t)
    \/ \E t \in Threads, h \in Handles : Drop(t, h)
    \/ \E t \in Threads, h \in Handles : CloneBegin(t, h)
    \/ \E t \in Threads : CloneGet(t)
    \/ \E t \in Threads : CloneSet(t)
    \/ \E t \in Threads : CloneNew(t)
    \/ \E t \in Threads, h \in Handles : Deref(t, h)
    \/ \E t \in Threads : CollectBegin(t)
    \/ \E t \in Threads : CollectCas(t)
    \/ \E t \in Threads : CollectWrite(t)

Spec == Init /\ [][Next]_vars

\* the same when the host never sweeps
NextNoSweep ==
    \/ \E t \in Threads : AllocBegin(t)
    \/ \E t \in Threads : AllocCas(t)
    \/ \E t \in Threads : AllocWrite(t)
    \/ \E t \in Threads, h \in Handles : Drop(t, h)
    \/ \E t \in Threads, h \in Handles : CloneBegin(t, h)
    \/ \E t \in Threads : CloneGet(t)
    \/ \E t \in Threads : CloneSet(t)
    \/ \E t \in Threads : CloneNew(t)
    \/ \E t \in Threads, h \in Handles : Deref(t, h)

SpecNoSweep == Init /\ [][NextNoSweep]_vars

\* the same with a scheduler that lets a thread inside alloc run again
AllocStep(t) == AllocCas(t) \/ AllocWrite(t)
SpecNoSweepFair == SpecNoSweep /\ \A t \in Threads : WF_vars(AllocStep(t))

\* threads that allocate, read and drop, as those of test_concurrency do
NextAllocDrop ==
    \/ \E t \in Threads : AllocBegin(t)
    \/ \E t \in Threads : AllocCas(t)
    \/ \E t \in Threads : AllocWrite(t)
    \/ \E t \in Threads, h \in Handles : Deref(t, h)
    \/ \E t \in Threads, h \in Handles : Drop(t, h)

SpecAllocDrop == Init /\ [][NextAllocDrop]_vars

\* no call is in flight
Sequential == \A t \in Threads : pc[t] = "idle"

\* a sequence of calls: each call runs to its end before the next begins
NextSeq ==
    \/ \E t \in Threads : Sequential /\ AllocBegin(t)
    \/ \E t \in Threads : AllocCas(t)
    \/ \E t \in Threads : AllocWrite(t)
    \/ \E t \in Threads, h \in Handles : Sequential /\ Drop(t, h)
    \/ \E t \in Threads, h \in Handles : Sequential /\ CloneBegin(t, h)
    \/ \E t \in Threads : CloneGet(t)
    \/ \E t \in Threads : CloneSet(t)
    \/ \E t \in Threads : CloneNew(t)
    \/ \E t \in Threads, h \in Handles : Sequential /\ Deref(t, h)
    \/ \E t \in Threads : Sequential /\ CollectBegin(t)
    \/ \E t \in Threads : CollectCas(t)
    \/ \E t \in Threads : CollectWrite(t)

SpecSeq == Init /\ [][NextSeq]_vars

\* a sequence of calls on values of a type T whose drop may panic
NextSeqPanic ==
    \/ NextSeq
    \/ \E t \in Threads : AllocWritePanic(t)
    \/ \E t \in Threads : CollectWritePanic(t)

SpecSeqPanic == Init /\ [][NextSeqPanic]_vars

\* with_capacity on a buffer anywhere in the address space, then a sequence
\* of alloc, deref and drop calls on the heap it returned
NextRaw ==
    \/ WithCapacity
    \/ \E t \in Threads : heap.state = "built" /\ Sequential /\ AllocBegin(t)
    \/ \E t \in Threads : AllocCas(t)
    \/ \E t \in Threads : AllocWrite(t)
    \/ \E t \in Threads, h \in Handles : Sequential /\ Deref(t, h)
    \/ \E t \in Threads, h \in Handles : Sequential /\ Drop(t, h)

SpecRaw == InitRaw /\ [][NextRaw]_vars

\* a sequence of calls without sweeps
NextSeqNoSweep ==
    \/ \E t \in Threads : Sequential /\ AllocBegin(t)
    \/ \E t \in Threads : AllocCas(t)
    \/ \E t \in Threads : AllocWrite(t)
    \/ \E t \in Threads, h \in Handles : Sequential /\ Drop(t, h)
    \/ \E t \in Threads, h \in Handles : Sequential /\ CloneBegin(t, h)
    \/ \E t \in Threads : CloneGet(t)
    \/ \E t \in Threads : CloneSet(t)
    \/ \E t \in Threads : CloneNew(t)
    \/ \E t \in Threads, h \in Handles : Sequential /\ Deref(t, h)

SpecSeqNoSweep == Init /\ [][NextSeqNoSweep]_vars

\* ------------------------------------------------------------------ claims
\* the live Orcs that point to slot s
LiveOn(s) == {h \in Handles : orc[h].live /\ orc[h].slot = s}

\* an alloc or a collect in flight has won the compare_and_swap on slot s
\* and not yet finished with it
Claimed(s) ==
    \E t \in Threads : pc[t] \in {"alloc_write", "collect_write"} /\ loc[t].pos = s

\* a clone in flight has halved the exponent of an Orc of slot s and not yet
\* handed out the other half
Splitting(s) ==
    \E t \in Threads : pc[t] = "clone_new" /\ orc[loc[t].h].slot = s

RECURSIVE WeightOf(_)
\* the sum of 2^e over a set of Orcs
WeightOf(H) ==
    IF H = {} THEN 0
    ELSE LET h == Min(H) IN two_two_the(orc[h].exp) + WeightOf(H \ {h})

\* C1: for every occupied slot (non-zero weight, its Orc handed out, no
\* clone half way) the weights 2^e of the live Orcs of the slot add up to
\* the slot's counter
C1_Conservation ==
    \A s \in Slots :
        (weight[s] # 0 /\ ~Claimed(s) /\ ~Splitting(s))
            => WeightOf(LiveOn(s)) = weight[s]

\* C2: a deref of a live Orc never reaches the None branch and never finds
\* another value than the one its slot was allocated with
C2_NoPrematureFree ==
    ret.op \notin {"deref_panic", "deref_other"}

\* C3: no slot is claimed by two allocations at once: two live Orcs of one
\* slot come from the same alloc (they carry the same value), and no two
\* allocs in flight hold the same slot
C3_AllocExclusion ==
    /\ \A g, h \in Handles :
        (orc[g].live /\ orc[h].live /\ orc[g].slot = orc[h].slot)
            => orc[g].val = orc[h].val
    /\ \A t, u \in Threads :
        (t # u /\ pc[t] = "alloc_write" /\ pc[u] = "alloc_write")
            => loc[t].pos # loc[u].pos
    /\ \A t \in Threads :
        pc[t] = "alloc_write" => LiveOn(loc[t].pos) = {}

\* C3 witness: two allocs run at once, each holding the slot it has won,
\* while an Orc of an earlier alloc is dropped and its slot free again
C3_Witness ==
    \E t, u \in Threads :
        /\ t # u
        /\ pc[t] = "alloc_write" /\ pc[u] = "alloc_write"
        /\ \E s \in Slots : data[s] # None

\* C4: the drop that brings a slot's weight to zero leaves the slot without
\* a value
C4_LastDropFrees ==
    ret.op = "drop_zero" => (data[ret.a] = None /\ \A v \in Values : ~alive[v])

\* C5: no teardown runs twice, and after a sweep that ran with every Orc
\* dropped no value is left: each has been torn down
C5_TeardownOnce ==
    /\ torn = {}
    /\ (ret.op = "collect" /\ \A h \in Handles : ~orc[h].live)
        => /\ \A v \in Values : ~alive[v]
           /\ \A s \in Slots : data[s] = None

\* C5 witness: a sweep that tore down a value has just ended and no Orc is
\* live
C5_Witness ==
    /\ ret.op = "collect" /\ ret.a = 1
    /\ \A h \in Handles : ~orc[h].live

\* the step decides an alloc of thread t: it wins a slot, or returns Err
AllocWins(t) ==
    /\ pc[t] \in {"idle", "alloc_cas"}
    /\ pc'[t] = "alloc_write"
AllocFails(t) ==
    /\ pc[t] \in {"idle", "alloc_cas"}
    /\ pc'[t] = "idle"
    /\ ret' = Ret("alloc_err", t, 0)

\* C6: in a sequence of calls an alloc returns Err exactly when every slot
\* has a non-zero weight
C6_CapacityExhaustion ==
    [][\A t \in Threads :
        /\ AllocWins(t) => \E s \in Slots : weight[s] = 0
        /\ AllocFails(t) => \A s \in Slots : weight[s] # 0]_vars

\* C6 witness: with Capacity Orcs live, each fresh from its alloc and on a
\* slot of its own, one more alloc has just returned Err
C6_Witness ==
    /\ ret.op = "alloc_err"
    /\ \A s \in Slots :
        \E h \in Handles : LiveOn(s) = {h} /\ orc[h].exp = MAX_WEIGHT_EXP

C8_EmptyIffUnreferenced ==
    Sequential => \A s \in Slots : (weight[s] = 0 <=> LiveOn(s) = {})

\* C9: a clone of an Orc whose exponent is above zero does not fail
C9_CloneSplits ==
    ~(ret.op = "clone_panic" /\ ret.a > 0)

\* C10: a clone of an Orc whose exponent is zero does not panic
C10_CloneMinimumNoCrash ==
    ~(ret.op = "clone_panic" /\ ret.a = 0)

\* C11: no two threads are inside clone of the same Orc at once, so that its
\* exponent is read and written by one thread at a time
C11_SingleWriter ==
    \A t, u \in Threads :
        (t # u /\ pc[t] \in ClonePcs /\ pc[u] \in ClonePcs)
            => loc[t].h # loc[u].h

\* C12: a drop never subtracts more than the counter holds (no wrap below
\* zero), and it brings the counter to zero exactly when it drops the last
\* live Orc of the slot
C12_ZeroCrossingOnce ==
    [][\A h \in Handles :
        (orc[h].live /\ ~orc'[h].live) =>
            LET s == orc[h].slot IN
                /\ weight[s] >= two_two_the(orc[h].exp)
                /\ weight'[s] = 0 <=> LiveOn(s) = {h}]_vars

\* thread t is inside alloc
InAlloc(t) == pc[t] \in {"alloc_cas", "alloc_write"}

\* C13: an alloc scans forward only: each of its steps takes the slot, ends
\* the call with Err or moves to the next position below the capacity, a step
\* is always possible whatever the other threads have done, and a thread that
\* keeps running leaves alloc
C13_AllocTerminates ==
    /\ [](\A t \in Threads :
            /\ pc[t] = "alloc_cas" =>
                (loc[t].pos \in 1 .. (Capacity - 1) /\ ENABLED AllocCas(t))
            /\ pc[t] = "alloc_write" => ENABLED AllocWrite(t))
    /\ [][\A t \in Threads :
            /\ (pc[t] = "alloc_cas" /\ pc'[t] = "alloc_cas")
                => (loc'[t] = loc[t] \/ loc'[t].pos > loc[t].pos)
            /\ pc[t] = "alloc_write" => pc'[t] \in {"alloc_write", "idle"}]_vars
    /\ \A t \in Threads : InAlloc(t) ~> (pc[t] = "idle")

\* C13 witness: an alloc has returned Err although a slot it had passed over
\* was freed by another thread during the scan: it did not go back
C13_Witness ==
    /\ ret.op = "alloc_err"
    /\ \E s \in Slots : weight[s] = 0

\* C14: when the teardown of the value of a slot panics inside alloc or
\* collect, the slot is not left with a non-zero weight and no live Orc
C14_PanicNoLeak ==
    ret.op \in {"alloc_panic", "collect_panic"}
        => (weight[ret.a] = 0 \/ LiveOn(ret.a) # {})

\* the step is one of thread t's clone: it enters clone, moves inside it or
\* leaves it
CloneStepOf(t) ==
    /\ pc[t] \in ClonePcs \/ pc'[t] \in ClonePcs
    /\ pc'[t] # pc[t]

\* C15: a step of a clone, and a clone that panics, leave every weight,
\* every value and every other Orc as they are: of the Orc cloned only the
\* exponent may change, and the one Orc that appears points to its slot
C15_CloneFrame ==
    [][/\ \A t \in Threads :
            CloneStepOf(t) =>
                LET h == IF pc[t] \in ClonePcs THEN loc[t].h ELSE loc'[t].h IN
                    /\ weight' = weight /\ data' = data /\ alive' = alive
                    /\ orc'[h] = [orc[h] EXCEPT !.exp = orc'[h].exp]
                    /\ \A g \in Handles \ {h} :
                        \/ orc'[g] = orc[g]
                        \/ /\ pc[t] = "clone_new"
                           /\ ~orc[g].live /\ orc'[g].live
                           /\ orc'[g].slot = orc[h].slot
                    /\ Cardinality({g \in Handles \ {h} : orc'[g] # orc[g]}) <= 1
       /\ ret'.op = "clone_panic" =>
            (weight' = weight /\ data' = data /\ alive' = alive /\ orc' = orc)]_vars

\* C15 witness: a clone has just returned while every slot is referenced and
\* an Orc of another slot is live
C15_Witness ==
    /\ ret.op = "clone_ok"
    /\ \A s \in Slots : LiveOn(s) # {} /\ data[s] # None

\* the step is one of thread t's collect
CollectStepOf(t) ==
    /\ pc[t] \in {"collect_cas", "collect_write"}
        \/ pc'[t] \in {"collect_cas", "collect_write"}
    /\ pc'[t] # pc[t] \/ loc'[t] # loc[t]

\* an alloc in flight has claimed slot s
AllocClaimed(s) ==
    \E u \in Threads : pc[u] = "alloc_write" /\ loc[u].pos = s

\* C17: a step of a collect leaves the weight and the value of every slot
\* that a live Orc points to, or that an alloc in flight has claimed, as they
\* are, and it clears a value only in the slot the collect has claimed
C17_SweepFrame ==
    [][\A t \in Threads :
        CollectStepOf(t) =>
            \A s \in Slots :
                /\ (LiveOn(s) # {} \/ AllocClaimed(s))
                    => (weight'[s] = weight[s] /\ data'[s] = data[s])
                /\ data'[s] # data[s]
                    => (pc[t] = "collect_write" /\ loc[t].pos = s)]_vars

\* the step is one of thread t's alloc that looks at a slot and does not
\* take it
AllocPasses(t) ==
    /\ pc[t] \in {"idle", "alloc_cas"}
    /\ pc'[t] = "alloc_cas"
    /\ loc'[t] # loc[t]

\* C18: the steps of an alloc that ends with Err, none of which takes a
\* slot, leave every weight, every stored value and every Orc as they are
C18_FailedAllocFrame ==
    [][\A t \in Threads :
        (AllocPasses(t) \/ AllocFails(t))
            => (weight' = weight /\ data' = data /\ orc' = orc)]_vars

\* C18 witness: an alloc has just returned Err with every slot referenced,
\* one of them by Orcs that were cloned and in part dropped, so that its
\* weight is neither zero nor MAX_WEIGHT
C18_Witness ==
    /\ ret.op = "alloc_err"
    /\ \A s \in Slots : LiveOn(s) # {}
    /\ \E s \in Slots : weight[s] \notin {0, MAX_WEIGHT}

\* the address of slot s survives the Orc: pointer_data keeps all but the
\* last byte, construct_pointer puts zero in its place
RoundTrip(s) ==
    LET a == SlotAddr(heap.base, s) IN
        construct_pointer(deconstruct_pointer(a)[1], 0) = a

\* C16: when with_capacity has returned a heap, the address of every slot is
\* rebuilt unchanged from its pointer_data; when the address of some slot
\* does not fit, with_capacity does not return a heap
C16_AddressRoundTrip ==
    /\ heap.state = "built" => \A s \in Slots : RoundTrip(s)
    /\ (heap.state # "raw" /\ \E s \in Slots : ~RoundTrip(s))
        => heap.state = "failed"

\* C16 witness: a heap whose last slot has the highest address that fits is
\* in use, every slot referenced by an Orc
C16_Witness ==
    /\ heap.state = "built"
    /\ SlotAddr(heap.base, Capacity - 1) + SlotSize > PTR_DATA_MOD - 1
    /\ \A s \in Slots : LiveOn(s) # {}

====
